---- MODULE Spec2Model ----
(***************************************************************************)
(* Model of apis_v1/static/js/PlanDialog.js: the controller of the plan    *)
(* dialog (validation, dollars-to-cents normalisation, create and delete   *)
(* requests) and the "roll up older versions" filter of the plan table.    *)
(*                                                                         *)
(* A JavaScript string is a sequence of one-character strings.             *)
(***************************************************************************)
EXTENDS Integers, Sequences, FiniteSets, TLC

VARIABLES
    fields,      \* value of each form field (o.val())
    errFlags,    \* fields carrying the class ui-state-error
    tipsText,    \* text of .validateTips
    expires,     \* the implicit global `expires`
    isOpen,      \* the plan dialog is open
    confirmOpen, \* the confirmation dialog of deletePlan is open
    buttons,     \* which buttons of the plan dialog are shown
    openedAs,    \* how the plan dialog was opened last on this page (history)
    activePlan,  \* the page global `activePlan`
    pending,     \* requests in flight, oldest first
    last,        \* the handler that ran last: its name, return value, requests it sent
    cost,        \* argument of a dollarsToCents call
    centsOut,    \* what that call returned
    lenArgs,     \* arguments of a checkLength call
    lenRet,      \* what that call returned and the field's classes afterwards
    rows,        \* table.rows of #pl: the header row, then the plan rows in order
    display,     \* the css display of each row
    checked,     \* the checkbox #rollupOlderVersions
    firstShown,  \* the rows the first collapse left shown (history)
    recollapsed, \* a collapse has run after the first one (history)
    href,        \* window.location.href
    spinner,     \* value of #html5Spinner
    clicked      \* the Update click that led to this page, if one did (history)

dialogVars == <<fields, errFlags, tipsText, expires, isOpen, confirmOpen, buttons,
                openedAs, activePlan, pending, last>>
centsVars == <<cost, centsOut>>
lengthVars == <<lenArgs, lenRet>>
rollVars == <<rows, display, checked, firstShown, recollapsed>>
urlVars == <<href, spinner, clicked>>
vars == <<dialogVars, centsVars, lengthVars, rollVars, urlVars>>

----------------------------------------------------------------------------
(* Strings *)

Digits == {"0", "1", "2", "3", "4", "5", "6", "7", "8", "9"}

\* The strings over alphabet A of length at most n.
StringsUpTo(A, n) == UNION {[1..k -> A] : k \in 0..n}

\* A string of n copies of the character c.
Repeat(c, n) == [i \in 1..n |-> c]

\* String.prototype.indexOf for a one-character needle: zero-based, -1 when absent.
indexOf(s, c) ==
    IF \E i \in 1..Len(s) : s[i] = c
    THEN (CHOOSE i \in 1..Len(s) : s[i] = c /\ \A j \in 1..(i - 1) : s[j] # c) - 1
    ELSE -1

\* String.prototype.split for a one-character separator: the pieces, in order.
RECURSIVE split(_, _)
split(s, c) ==
    IF indexOf(s, c) < 0
    THEN <<s>>
    ELSE <<SubSeq(s, 1, indexOf(s, c))>> \o split(SubSeq(s, indexOf(s, c) + 2, Len(s)), c)

\* String.prototype.substring(from, to), zero-based, to exclusive.
substring(s, from, to) == SubSeq(s, from + 1, IF to > Len(s) THEN Len(s) ELSE to)

----------------------------------------------------------------------------
(* dollarsToCents *)

dollarsToCents_slip(c) ==
    LET costString == c IN
    IF Len(costString) = 0 THEN <<>>
    ELSE IF indexOf(costString, ".") >= 0
    THEN LET money == split(costString, ".")
             dollars == money[1]
             cents == money[2]
         IN  IF Len(cents) > 2 THEN dollars \o substring(cents, 1, 3)
             ELSE IF Len(cents) = 0 THEN dollars \o <<"0", "0">>
             ELSE IF Len(cents) = 1 THEN dollars \o <<"0">> \o cents
             ELSE dollars \o cents
    ELSE c \o <<"0", "0">>

dollarsToCents_oneZero(c) ==
    LET costString == c IN
    IF Len(costString) = 0 THEN <<>>
    ELSE IF indexOf(costString, ".") >= 0
    THEN LET money == split(costString, ".")
             dollars == money[1]
             cents == money[2]
         IN  IF Len(cents) > 2 THEN dollars \o substring(cents, 0, 2)
             ELSE IF Len(cents) = 0 THEN dollars \o <<"0", "0">>
             ELSE IF Len(cents) = 1 THEN dollars \o cents \o <<"0">>
             ELSE dollars \o cents
    ELSE c \o <<"0">>

dollarsToCents(c) ==
    LET costString == c IN
    IF Len(costString) = 0 THEN <<>>
    ELSE IF indexOf(costString, ".") >= 0
    THEN LET money == split(costString, ".")
             dollars == money[1]
             cents == money[2]
         IN  IF Len(cents) > 2 THEN dollars \o substring(cents, 0, 2)
             ELSE IF Len(cents) = 0 THEN dollars \o <<"0", "0">>
             ELSE IF Len(cents) = 1 THEN dollars \o cents \o <<"0">>
             ELSE dollars \o cents
    ELSE c \o <<"0", "0">>

----------------------------------------------------------------------------
(* The form, its fields and the page data *)

idfld == "id"
couponCode == "coupon_code"
planTypeEnum == "plan_type_enum"
hiddenPlanComment == "hidden_plan_comment"
couponAppliedMessage == "coupon_applied_message"
listPriceMonthlyCredit == "list_price_monthly_credit"
discountedPriceMonthlyCredit == "discounted_price_monthly_credit"
redemptions == "redemptions"
featuresProvidedBitmap == "features_provided_bitmap"
planCreatedAt == "plan_created_at"
couponExpiresDate == "coupon_expires_date"

allFields ==
    {idfld, couponCode, planTypeEnum, hiddenPlanComment, couponAppliedMessage,
     listPriceMonthlyCredit, discountedPriceMonthlyCredit, redemptions,
     featuresProvidedBitmap, planCreatedAt, couponExpiresDate}

\* The options of the select #plan_type_enum; the first one is selected by default.
PlanTypes == {<<"M">>, <<"Y">>}
DefaultPlanType == <<"M">>

\* The value every field has in the page as served: what form[0].reset() restores.
FormDefault == [f \in allFields |-> IF f = planTypeEnum THEN DefaultPlanType ELSE <<>>]

\* Text of .validateTips in the page as served.
InitialTips == <<>>

\* JavaScript's undefined, for a global that has not been assigned yet.
Undefined == <<"undefined">>

\* Number-to-string conversion of a non-negative integer (x + "").
RECURSIVE NatToStr(_)
NatToStr(n) ==
    LET d == <<"0", "1", "2", "3", "4", "5", "6", "7", "8", "9">>[(n % 10) + 1]
    IN  IF n < 10 THEN <<d>> ELSE NatToStr(n \div 10) \o <<d>>

\* The plan snapshots a click on the table can hand over in `activePlan`.
Plans ==
    { [id |-> 7, coupon_code |-> <<"2", "5", "O", "F", "F">>, plan_type_enum |-> <<"Y">>,
       hidden_plan_comment |-> <<"c">>, coupon_applied_message |-> <<"m">>,
       list_price_monthly_credit |-> 1999, discounted_price_monthly_credit |-> 950,
       redemptions |-> 4, features_provided_bitmap |-> 3,
       plan_created_at |-> <<"0", "1", "/", "3", "1", "/", "2", "0", "2", "0">>] }

NoPlan == [id |-> 0]

\* moment().format("MM/DD/YYYY") at the time the page is used.
Today == <<"1", "1", "/", "0", "2", "/", "2", "0", "2", "6">>

\* What the user types into the fields.
CouponInputs == { <<"A", "B">>, <<"A", "B", "C">>, Repeat("x", 129) }
PriceInputs == { <<"9", ".", "5">>, <<"-", "5">>, <<"a", "b", "c">> }
DateInputs ==
    { <<"1", "2", "/", "2", "5", "/", "2", "0", "2", "2">>,
      <<"1", "/", "2", "/", "2", "2">>,
      <<"1", "2", "/", "2", "5", "/", "2", "0", "2", "2",
        "0", "1", "/", "3", "0", "/", "2", "0", "2", "3">> }

Inputs(f) ==
    IF f = couponCode THEN CouponInputs
    ELSE IF f \in {listPriceMonthlyCredit, discountedPriceMonthlyCredit} THEN PriceInputs
    ELSE IF f = couponExpiresDate THEN DateInputs
    ELSE {}

MaxPending == 2

----------------------------------------------------------------------------
(* Validation.  A check takes the page's validation display st (the flagged *)
(* fields err and the tip text tips), the field o and its label n, and      *)
(* returns what the function returns (ret) with the display afterwards.     *)
(* updateTips also highlights the tip for a moment; the highlight is styling *)
(* only and is not part of the state.                                        *)

updateTips(st, t) == [st EXCEPT !.tips = t]

addClass(st, o) == [st EXCEPT !.err = st.err \cup {o}]

LengthTip(n, min, max) ==
    <<"Length of ", n, " must be between ">> \o NatToStr(min) \o <<" and ">>
        \o NatToStr(max) \o <<".">>

checkLength_strict(st, o, val, n, min, max) ==
    IF Len(val) >= max \/ Len(val) < min
    THEN [ret |-> FALSE, st |-> updateTips(addClass(st, o), LengthTip(n, min, max))]
    ELSE [ret |-> TRUE, st |-> st]

checkLength(st, o, val, n, min, max) ==
    IF Len(val) > max \/ Len(val) < min
    THEN [ret |-> FALSE, st |-> updateTips(addClass(st, o), LengthTip(n, min, max))]
    ELSE [ret |-> TRUE, st |-> st]

\* Number.isNaN(x) is true only of the Number value NaN; it converts nothing.
\* Its argument here is o.val(), a String, for which it is false.
NumberIsNaN(x) == FALSE

checkNumber(st, o, val, n) ==
    IF NumberIsNaN(val)
    THEN [ret |-> FALSE, st |-> updateTips(addClass(st, o), <<n, " must be a number.">>)]
    ELSE [ret |-> TRUE, st |-> st]

\* /^([0-9]{2}\/[0-9]{2}\/[0-9]{4})+$/ : one or more blocks dd/dd/dddd.
DateBlock(s, k) ==
    /\ \A i \in {1, 2, 4, 5, 7, 8, 9, 10} : s[k + i] \in Digits
    /\ s[k + 3] = "/"
    /\ s[k + 6] = "/"

DateRegexp == "^([0-9]{2}\\/[0-9]{2}\\/[0-9]{4})+$"

\* RegExp.prototype.test, for the one pattern the page uses.
test(regexp, s) ==
    /\ regexp = DateRegexp
    /\ Len(s) > 0
    /\ Len(s) % 10 = 0
    /\ \A b \in 0..((Len(s) \div 10) - 1) : DateBlock(s, 10 * b)

checkRegexp(st, o, val, regexp, n) ==
    IF ~test(regexp, val)
    THEN [ret |-> FALSE, st |-> updateTips(addClass(st, o), <<n>>)]
    ELSE [ret |-> TRUE, st |-> st]

DigitVal(c) == CHOOSE d \in 0..9 : NatToStr(d) = <<c>>
TwoDigits(s, i) == 10 * DigitVal(s[i]) + DigitVal(s[i + 1])

DaysInMonth(m, y) ==
    IF m \in {4, 6, 9, 11} THEN 30
    ELSE IF m = 2
         THEN (IF (y % 4 = 0 /\ y % 100 # 0) \/ y % 400 = 0 THEN 29 ELSE 28)
         ELSE 31

\* moment(s, 'MM/DD/YYYY HH:mm').format() for an s that matches DateRegexp: the
\* first block is the date; a second block's first two numbers are read as the
\* hour and the minute.  The zone offset of the result is left out.
momentFormat(s) ==
    LET mm == TwoDigits(s, 1)
        dd == TwoDigits(s, 4)
        yy == 100 * TwoDigits(s, 7) + TwoDigits(s, 9)
        hasTime == Len(s) > 10
        hh == IF hasTime THEN TwoDigits(s, 11) ELSE 0
        mi == IF hasTime THEN TwoDigits(s, 14) ELSE 0
    IN  IF mm \in 1..12 /\ dd \in 1..DaysInMonth(mm, yy) /\ hh \in 0..23 /\ mi \in 0..59
        THEN SubSeq(s, 7, 10) \o <<"-">> \o SubSeq(s, 1, 2) \o <<"-">> \o SubSeq(s, 4, 5)
                 \o <<"T">>
                 \o (IF hasTime THEN SubSeq(s, 11, 12) ELSE <<"0", "0">>) \o <<":">>
                 \o (IF hasTime THEN SubSeq(s, 14, 15) ELSE <<"0", "0">>) \o <<":", "0", "0">>
        ELSE <<"Invalid date">>

----------------------------------------------------------------------------
(* saveNewPlan *)

\* valid = valid && check(...): the check runs only while valid is still true.
Failed(prev) == [ret |-> FALSE, st |-> prev.st]

createNewPlan(data) == [api |-> "createNewPlan", data |-> data]

\* One run of saveNewPlan on the field values flds, with tip text tips and the
\* global expires holding exp: the value returned, the validation display and the
\* global afterwards, and the requests sent.
savePass_keepExpires(flds, tips, exp) ==
    LET s0 == [err |-> {}, tips |-> tips]
        r1 == checkLength(s0, couponCode, flds[couponCode], "Coupon Code", 3, 128)
        r2 == IF r1.ret
              THEN checkNumber(r1.st, listPriceMonthlyCredit, flds[listPriceMonthlyCredit],
                               "List Price Monthly")
              ELSE Failed(r1)
        r3 == IF r2.ret
              THEN checkNumber(r2.st, discountedPriceMonthlyCredit,
                               flds[discountedPriceMonthlyCredit], "Discounted Price Monthly")
              ELSE Failed(r2)
        hasDate == Len(flds[couponExpiresDate]) > 0
        r4 == IF hasDate
              THEN (IF r3.ret
                    THEN checkRegexp(r3.st, couponExpiresDate, flds[couponExpiresDate],
                                     DateRegexp,
                                     "Expiration date must use this format: 12/25/2022")
                    ELSE Failed(r3))
              ELSE r3
        e1 == IF hasDate /\ r4.ret THEN momentFormat(flds[couponExpiresDate]) ELSE exp
        valid == r4.ret
        newPlanData ==
            [couponCode |-> flds[couponCode],
             planTypeEnum |-> flds[planTypeEnum],
             couponAppliedMessage |-> flds[couponAppliedMessage],
             hiddenPlanComment |-> flds[hiddenPlanComment],
             listPriceMonthlyCredit |-> dollarsToCents(flds[listPriceMonthlyCredit]),
             discountedPriceMonthlyCredit |->
                 dollarsToCents(flds[discountedPriceMonthlyCredit]),
             featuresProvidedBitmap |-> flds[featuresProvidedBitmap],
             couponExpiresDate |-> e1]
    IN  [valid |-> valid, st |-> r4.st, expires |-> e1,
         sent |-> IF valid THEN <<createNewPlan(newPlanData)>> ELSE <<>>]

savePass_alwaysSend(flds, tips, exp) ==
    LET r == savePass_keepExpires(flds, tips, <<>>)
        data == [couponCode |-> flds[couponCode],
                 planTypeEnum |-> flds[planTypeEnum],
                 couponAppliedMessage |-> flds[couponAppliedMessage],
                 hiddenPlanComment |-> flds[hiddenPlanComment],
                 listPriceMonthlyCredit |-> dollarsToCents(flds[listPriceMonthlyCredit]),
                 discountedPriceMonthlyCredit |->
                     dollarsToCents(flds[discountedPriceMonthlyCredit]),
                 featuresProvidedBitmap |-> flds[featuresProvidedBitmap],
                 couponExpiresDate |-> r.expires]
    IN  [r EXCEPT !.sent = <<createNewPlan(data)>>]

\* Every check is run, whatever the checks before it returned.
savePass_eager(flds, tips, exp) ==
    LET s0 == [err |-> {}, tips |-> tips]
        r1 == checkLength(s0, couponCode, flds[couponCode], "Coupon Code", 3, 128)
        r2 == checkNumber(r1.st, listPriceMonthlyCredit, flds[listPriceMonthlyCredit],
                          "List Price Monthly")
        r3 == checkNumber(r2.st, discountedPriceMonthlyCredit,
                          flds[discountedPriceMonthlyCredit], "Discounted Price Monthly")
        hasDate == Len(flds[couponExpiresDate]) > 0
        r4 == IF hasDate
              THEN checkRegexp(r3.st, couponExpiresDate, flds[couponExpiresDate], DateRegexp,
                               "Expiration date must use this format: 12/25/2022")
              ELSE r3
        valid == r1.ret /\ r2.ret /\ r3.ret /\ r4.ret
        e1 == IF hasDate /\ valid THEN momentFormat(flds[couponExpiresDate]) ELSE <<>>
        newPlanData ==
            [couponCode |-> flds[couponCode],
             planTypeEnum |-> flds[planTypeEnum],
             couponAppliedMessage |-> flds[couponAppliedMessage],
             hiddenPlanComment |-> flds[hiddenPlanComment],
             listPriceMonthlyCredit |-> dollarsToCents(flds[listPriceMonthlyCredit]),
             discountedPriceMonthlyCredit |->
                 dollarsToCents(flds[discountedPriceMonthlyCredit]),
             featuresProvidedBitmap |-> flds[featuresProvidedBitmap],
             couponExpiresDate |-> e1]
    IN  [valid |-> valid, st |-> r4.st, expires |-> e1,
         sent |-> IF valid THEN <<createNewPlan(newPlanData)>> ELSE <<>>]

\* The flags of the pass before are not removed.
savePass_keepFlags(flds, tips, exp) ==
    LET r == savePass_keepExpires(flds, tips, <<>>)
    IN  [r EXCEPT !.st.err = r.st.err \cup errFlags]

savePass(flds, tips, exp) ==
    LET s0 == [err |-> {}, tips |-> tips]
        e0 == <<>>
        r1 == checkLength(s0, couponCode, flds[couponCode], "Coupon Code", 3, 128)
        r2 == IF r1.ret
              THEN checkNumber(r1.st, listPriceMonthlyCredit, flds[listPriceMonthlyCredit],
                               "List Price Monthly")
              ELSE Failed(r1)
        r3 == IF r2.ret
              THEN checkNumber(r2.st, discountedPriceMonthlyCredit,
                               flds[discountedPriceMonthlyCredit], "Discounted Price Monthly")
              ELSE Failed(r2)
        hasDate == Len(flds[couponExpiresDate]) > 0
        r4 == IF hasDate
              THEN (IF r3.ret
                    THEN checkRegexp(r3.st, couponExpiresDate, flds[couponExpiresDate],
                                     DateRegexp,
                                     "Expiration date must use this format: 12/25/2022")
                    ELSE Failed(r3))
              ELSE r3
        e1 == IF hasDate /\ r4.ret THEN momentFormat(flds[couponExpiresDate]) ELSE e0
        valid == r4.ret
        newPlanData ==
            [couponCode |-> flds[couponCode],
             planTypeEnum |-> flds[planTypeEnum],
             couponAppliedMessage |-> flds[couponAppliedMessage],
             hiddenPlanComment |-> flds[hiddenPlanComment],
             listPriceMonthlyCredit |-> dollarsToCents(flds[listPriceMonthlyCredit]),
             discountedPriceMonthlyCredit |->
                 dollarsToCents(flds[discountedPriceMonthlyCredit]),
             featuresProvidedBitmap |-> flds[featuresProvidedBitmap],
             couponExpiresDate |-> e1]
    IN  [valid |-> valid, st |-> r4.st, expires |-> e1,
         sent |-> IF valid THEN <<createNewPlan(newPlanData)>> ELSE <<>>]

Ran(op, valid, sent) == [op |-> op, valid |-> valid, sent |-> sent]

Apis(reqs) == [i \in 1..Len(reqs) |-> reqs[i].api]

saveNewPlan_abortsFirst ==
    /\ isOpen /\ ~confirmOpen
    /\ buttons.savePlan \/ buttons.saveAsNew
    /\ LET r == savePass(fields, tipsText, expires)
       IN  /\ Len(pending) + Len(r.sent) <= MaxPending
           /\ errFlags' = r.st.err
           /\ tipsText' = r.st.tips
           /\ expires' = r.expires
           /\ pending' = IF r.valid THEN Apis(r.sent) ELSE pending
           /\ last' = Ran("saveNewPlan", r.valid, r.sent)
    /\ UNCHANGED <<fields, isOpen, confirmOpen, buttons, openedAs, activePlan>>

\* The buttons 'Save Plan' and 'Save as a new Plan' both run saveNewPlan.
saveNewPlan ==
    /\ isOpen /\ ~confirmOpen
    /\ buttons.savePlan \/ buttons.saveAsNew
    /\ LET r == savePass(fields, tipsText, expires)
       IN  /\ Len(pending) + Len(r.sent) <= MaxPending
           /\ errFlags' = r.st.err
           /\ tipsText' = r.st.tips
           /\ expires' = r.expires
           /\ pending' = pending \o Apis(r.sent)
           /\ last' = Ran("saveNewPlan", r.valid, r.sent)
    /\ UNCHANGED <<fields, isOpen, confirmOpen, buttons, openedAs, activePlan>>

----------------------------------------------------------------------------
(* The dialog *)

AllButtons == [savePlan |-> TRUE, saveAsNew |-> TRUE, delete |-> TRUE]

\* The dialog's close callback: what it leaves in the fields and in their flags.
close_keepFlags(flds, err) == [fields |-> FormDefault, errFlags |-> err]

close(flds, err) == [fields |-> FormDefault, errFlags |-> {}]

\* The page as loaded, with the handler `op` recorded as the one that ran last.
PageLoaded(op) ==
    /\ fields = FormDefault
    /\ errFlags = {}
    /\ tipsText = InitialTips
    /\ expires = Undefined
    /\ isOpen = FALSE
    /\ confirmOpen = FALSE
    /\ buttons = AllButtons
    /\ openedAs = "none"
    /\ activePlan = NoPlan
    /\ pending = <<>>
    /\ last = op

\* The user changes the value of a field of the open dialog.
input ==
    /\ isOpen /\ ~confirmOpen
    /\ \E f \in allFields : \E v \in Inputs(f) :
          /\ fields[f] # v
          /\ fields' = [fields EXCEPT ![f] = v]
    /\ last' = Ran("input", TRUE, <<>>)
    /\ UNCHANGED <<errFlags, tipsText, expires, isOpen, confirmOpen, buttons, openedAs, activePlan,
                   pending>>

\* The form's submit handler: preventDefault, then the call of the undefined
\* addUser throws; nothing else happens.
submit ==
    /\ isOpen /\ ~confirmOpen
    /\ last' = Ran("submit", FALSE, <<>>)
    /\ UNCHANGED <<fields, errFlags, tipsText, expires, isOpen, confirmOpen, buttons, openedAs,
                   activePlan, pending>>

setInitialValues(flds, plan) ==
    [flds EXCEPT
        ![idfld] = NatToStr(plan.id),
        ![couponCode] = plan.coupon_code,
        ![planTypeEnum] = plan.plan_type_enum,
        ![hiddenPlanComment] = plan.hidden_plan_comment,
        ![couponAppliedMessage] = plan.coupon_applied_message,
        ![listPriceMonthlyCredit] = NatToStr(plan.list_price_monthly_credit),
        ![discountedPriceMonthlyCredit] = NatToStr(plan.discounted_price_monthly_credit),
        ![redemptions] = NatToStr(plan.redemptions),
        ![featuresProvidedBitmap] = NatToStr(plan.features_provided_bitmap),
        ![planCreatedAt] = plan.plan_created_at]

setNewValues(flds) == [flds EXCEPT ![planCreatedAt] = Today]

\* Click on the table #pl, after the page has set activePlan to the clicked plan.
\* Both dialogs are modal: the page behind an open dialog takes no clicks.
plClick ==
    /\ ~isOpen /\ ~confirmOpen
    /\ \E plan \in Plans :
          /\ activePlan' = plan
          /\ fields' = setInitialValues(fields, plan)
    /\ buttons' = [buttons EXCEPT !.savePlan = FALSE, !.delete = TRUE]
    /\ openedAs' = "edit"
    /\ isOpen' = TRUE
    /\ last' = Ran("plClick", TRUE, <<>>)
    /\ UNCHANGED <<errFlags, tipsText, expires, confirmOpen, pending>>

createCouponClick_keepsDelete ==
    /\ ~isOpen /\ ~confirmOpen
    /\ buttons' = [buttons EXCEPT !.savePlan = FALSE, !.saveAsNew = TRUE]
    /\ openedAs' = "create"
    /\ fields' = setNewValues(fields)
    /\ isOpen' = TRUE
    /\ last' = Ran("createCouponClick", TRUE, <<>>)
    /\ UNCHANGED <<errFlags, tipsText, expires, confirmOpen, activePlan, pending>>

createCouponClick ==
    /\ ~isOpen /\ ~confirmOpen
    /\ buttons' = [buttons EXCEPT !.savePlan = FALSE, !.delete = FALSE, !.saveAsNew = TRUE]
    /\ openedAs' = "create"
    /\ fields' = setNewValues(fields)
    /\ isOpen' = TRUE
    /\ last' = Ran("createCouponClick", TRUE, <<>>)
    /\ UNCHANGED <<errFlags, tipsText, expires, confirmOpen, activePlan, pending>>

\* The Cancel button (dialog.dialog('close')), the title bar's close button, Escape.
Cancel ==
    /\ isOpen /\ ~confirmOpen
    /\ isOpen' = FALSE
    /\ fields' = close(fields, errFlags).fields
    /\ errFlags' = close(fields, errFlags).errFlags
    /\ last' = Ran("Cancel", TRUE, <<>>)
    /\ UNCHANGED <<tipsText, expires, confirmOpen, buttons, openedAs, activePlan, pending>>

\* The Delete button of the plan dialog opens the confirmation dialog.
deletePlan ==
    /\ isOpen /\ ~confirmOpen
    /\ buttons.delete
    /\ confirmOpen' = TRUE
    /\ last' = Ran("deletePlan", TRUE, <<>>)
    /\ UNCHANGED <<fields, errFlags, tipsText, expires, isOpen, buttons, openedAs, activePlan,
                   pending>>

deleteThisPlan_wholePlan(flds) ==
    [api |-> "deletePlan", data |-> [id |-> flds[idfld], couponCode |-> flds[couponCode]]]

deleteThisPlan(flds) == [api |-> "deletePlan", data |-> [id |-> flds[idfld]]]

\* The Delete button of the confirmation dialog.
confirmDelete ==
    /\ confirmOpen
    /\ Len(pending) < MaxPending
    /\ pending' = Append(pending, deleteThisPlan(fields).api)
    /\ confirmOpen' = FALSE
    /\ last' = Ran("confirmDelete", TRUE, <<deleteThisPlan(fields)>>)
    /\ UNCHANGED <<fields, errFlags, tipsText, expires, isOpen, buttons, openedAs, activePlan>>

\* The Cancel button of the confirmation dialog.
confirmCancel ==
    /\ confirmOpen
    /\ confirmOpen' = FALSE
    /\ last' = Ran("confirmCancel", TRUE, <<>>)
    /\ UNCHANGED <<fields, errFlags, tipsText, expires, isOpen, buttons, openedAs, activePlan,
                   pending>>

\* A request succeeds: its callback closes the dialog and reloads the page; the
\* callbacks of the other requests in flight die with the page.
requestDone ==
    /\ \E i \in 1..Len(pending) :
          LET c == IF isOpen THEN close(fields, errFlags)
                   ELSE [fields |-> fields, errFlags |-> errFlags]
          IN  /\ fields' = c.fields
              /\ errFlags' = c.errFlags
              /\ last' = Ran("requestDone", TRUE, <<>>)
    /\ isOpen' = FALSE
    /\ tipsText' = InitialTips
    /\ expires' = Undefined
    /\ confirmOpen' = FALSE
    /\ buttons' = AllButtons
    /\ openedAs' = "none"
    /\ activePlan' = NoPlan
    /\ pending' = <<>>

requestFail_retry ==
    /\ pending # <<>>
    /\ pending' = pending
    /\ last' = Ran("requestFail", FALSE, <<>>)
    /\ UNCHANGED <<fields, errFlags, tipsText, expires, isOpen, confirmOpen, buttons, openedAs,
                   activePlan>>

\* A request fails: its callback logs the error.
requestFail ==
    /\ \E i \in 1..Len(pending) :
          pending' = SubSeq(pending, 1, i - 1) \o SubSeq(pending, i + 1, Len(pending))
    /\ last' = Ran("requestFail", FALSE, <<>>)
    /\ UNCHANGED <<fields, errFlags, tipsText, expires, isOpen, confirmOpen, buttons, openedAs,
                   activePlan>>

NotCalled == [called |-> FALSE, ret |-> FALSE, err |-> {}, tips |-> InitialTips]
NoArgs == [val |-> <<>>, min |-> 0, max |-> 0, err |-> {}]
NotYet == {0}

IdleCents == cost = <<>> /\ centsOut = <<>>
IdleLength == lenArgs = NoArgs /\ lenRet = NotCalled
IdleRoll ==
    /\ rows = <<>> /\ display = <<>> /\ checked = FALSE
    /\ firstShown = NotYet /\ recollapsed = FALSE
NoClick == [done |-> FALSE, from |-> <<>>, limit |-> <<>>]
IdleUrl == href = <<>> /\ spinner = <<>> /\ clicked = NoClick

Init ==
    /\ PageLoaded(Ran("load", TRUE, <<>>))
    /\ IdleCents /\ IdleLength /\ IdleRoll /\ IdleUrl

Next ==
    \/ (input /\ UNCHANGED <<centsVars, lengthVars, rollVars, urlVars>>)
    \/ (submit /\ UNCHANGED <<centsVars, lengthVars, rollVars, urlVars>>)
    \/ (saveNewPlan /\ UNCHANGED <<centsVars, lengthVars, rollVars, urlVars>>)
    \/ (plClick /\ UNCHANGED <<centsVars, lengthVars, rollVars, urlVars>>)
    \/ (createCouponClick /\ UNCHANGED <<centsVars, lengthVars, rollVars, urlVars>>)
    \/ (Cancel /\ UNCHANGED <<centsVars, lengthVars, rollVars, urlVars>>)
    \/ (deletePlan /\ UNCHANGED <<centsVars, lengthVars, rollVars, urlVars>>)
    \/ (confirmDelete /\ UNCHANGED <<centsVars, lengthVars, rollVars, urlVars>>)
    \/ (confirmCancel /\ UNCHANGED <<centsVars, lengthVars, rollVars, urlVars>>)
    \/ (requestDone /\ UNCHANGED <<centsVars, lengthVars, rollVars, urlVars>>)
    \/ (requestFail /\ UNCHANGED <<centsVars, lengthVars, rollVars, urlVars>>)

Spec == Init /\ [][Next]_vars

----------------------------------------------------------------------------
(* dollarsToCents on its own: every short string over CostAlphabet *)

MaxCostLen == 5
CostAlphabet == {"1", "9", ".", "-"}

callDollarsToCents ==
    /\ centsOut = Undefined
    /\ centsOut' = dollarsToCents(cost)
    /\ UNCHANGED cost

InitCents ==
    /\ PageLoaded(Ran("load", TRUE, <<>>))
    /\ IdleLength /\ IdleRoll /\ IdleUrl
    /\ cost \in StringsUpTo(CostAlphabet, MaxCostLen)
    /\ centsOut = Undefined

NextCents == callDollarsToCents /\ UNCHANGED <<dialogVars, lengthVars, rollVars, urlVars>>

SpecCents == InitCents /\ [][NextCents]_vars

----------------------------------------------------------------------------
(* checkLength on its own: every short value, every small min and max, on a *)
(* field that does or does not carry the error flag already                 *)

MaxValLen == 4

callCheckLength ==
    /\ ~lenRet.called
    /\ LET r == checkLength([err |-> lenArgs.err, tips |-> InitialTips], "o", lenArgs.val,
                            "o", lenArgs.min, lenArgs.max)
       IN  lenRet' = [called |-> TRUE, ret |-> r.ret, err |-> r.st.err, tips |-> r.st.tips]
    /\ UNCHANGED lenArgs

InitLength ==
    /\ PageLoaded(Ran("load", TRUE, <<>>))
    /\ IdleCents /\ IdleRoll /\ IdleUrl
    /\ \E n \in 0..(MaxValLen + 1) : \E min \in 0..MaxValLen : \E max \in 0..MaxValLen :
       \E err \in {{}, {"o"}} :
          lenArgs = [val |-> Repeat("x", n), min |-> min, max |-> max, err |-> err]
    /\ lenRet = NotCalled

NextLength == callCheckLength /\ UNCHANGED <<dialogVars, centsVars, rollVars, urlVars>>

SpecLength == InitLength /\ [][NextLength]_vars

----------------------------------------------------------------------------
(* The roll-up of older versions in table #pl *)

MaxRows == 4

\* The text of the coupon cell and of the plan type cell a plan row can show.  A
\* coupon code is free text; a plan type is one of the select's options.
RowCoupons == { <<"A">>, <<"B">>, <<"A", "~", "M">> }
RowTypes == PlanTypes

HeaderRow == [coupon |-> <<"C", "o", "d", "e">>, type |-> <<"T", "y", "p", "e">>]

\* innerText of a cell: the rendered text, but the raw textContent (with the
\* markup's surrounding white space) when the row is not rendered.
innerText(text, disp) == IF disp = "none" THEN <<" ">> \o text \o <<" ">> ELSE text

\* The handler's loop from row i on, with the keys seen so far.  A key always
\* contains "~", so `key in hashmap` never finds a property of Object.prototype.
RECURSIVE rollupLoop_couponOnly(_, _, _, _, _)
rollupLoop_couponOnly(tbl, disp, chk, i, hashmap) ==
    IF i > Len(tbl) THEN disp
    ELSE LET coupon == innerText(tbl[i].coupon, disp[i])
             key == coupon \o <<"~">>
         IN  IF chk
             THEN IF key \in hashmap
                  THEN rollupLoop_couponOnly(tbl, [disp EXCEPT ![i] = "none"], chk, i + 1,
                                             hashmap)
                  ELSE rollupLoop_couponOnly(tbl, disp, chk, i + 1, hashmap \cup {key})
             ELSE rollupLoop_couponOnly(tbl, [disp EXCEPT ![i] = ""], chk, i + 1, hashmap)

RECURSIVE rollupLoop(_, _, _, _, _)
rollupLoop(tbl, disp, chk, i, hashmap) ==
    IF i > Len(tbl) THEN disp
    ELSE LET coupon == innerText(tbl[i].coupon, disp[i])
             type == innerText(tbl[i].type, disp[i])
             key == coupon \o <<"~">> \o type
         IN  IF chk
             THEN IF key \in hashmap
                  THEN rollupLoop(tbl, [disp EXCEPT ![i] = "none"], chk, i + 1, hashmap)
                  ELSE rollupLoop(tbl, disp, chk, i + 1, hashmap \cup {key})
             ELSE rollupLoop(tbl, [disp EXCEPT ![i] = ""], chk, i + 1, hashmap)

\* The change handler of #rollupOlderVersions: table.rows[0] is skipped.
rollupOlderVersions_noRestore(tbl, disp, chk) ==
    IF chk THEN rollupLoop(tbl, disp, chk, 2, {}) ELSE disp

rollupOlderVersions(tbl, disp, chk) == rollupLoop(tbl, disp, chk, 2, {})

Shown(disp) == {i \in 1..Len(disp) : disp[i] # "none"}

\* A click on the checkbox toggles it and runs the change handler.
rollupChange ==
    /\ checked' = ~checked
    /\ display' = rollupOlderVersions(rows, display, checked')
    /\ firstShown' = IF checked' /\ firstShown = NotYet THEN Shown(display') ELSE firstShown
    /\ recollapsed' = (recollapsed \/ (checked' /\ firstShown # NotYet))
    /\ UNCHANGED rows

\* The page as loaded: the rows as served, all shown, and the checkbox as served,
\* then the click the script makes on the checkbox.
InitRoll ==
    /\ PageLoaded(Ran("load", TRUE, <<>>))
    /\ IdleCents /\ IdleLength /\ IdleUrl
    /\ \E n \in 0..MaxRows : \E body \in [1..n -> [coupon : RowCoupons, type : RowTypes]] :
       \E served \in BOOLEAN :
          /\ rows = <<HeaderRow>> \o body
          /\ checked = ~served
          /\ display = rollupOlderVersions(rows, [i \in 1..(n + 1) |-> ""], checked)
          /\ firstShown = IF checked THEN Shown(display) ELSE NotYet
          /\ recollapsed = FALSE

NextRoll == rollupChange /\ UNCHANGED <<dialogVars, centsVars, lengthVars, urlVars>>

SpecRoll == InitRoll /\ [][NextRoll]_vars

----------------------------------------------------------------------------
(* The limit parameter of the page's URL and the Update button *)

MaxParams == 2
MaxUrlLen == 28

\* The page's address without its query, and the parameters a query is made of.
PagePath == <<"/", "p">>
LimitEq == <<"l", "i", "m", "i", "t", "=">>
UrlParams == { LimitEq, LimitEq \o <<"3">>, <<"a", "=", "1">> }
SpinnerValues == { <<>>, <<"5">>, <<"1", "0">> }

RECURSIVE join(_, _)
join(ps, c) ==
    IF Len(ps) = 0 THEN <<>>
    ELSE IF Len(ps) = 1 THEN ps[1]
    ELSE ps[1] \o <<c>> \o join(Tail(ps), c)

Urls ==
    {PagePath} \cup
    { PagePath \o <<"?">> \o join(ps, "&") :
          ps \in UNION {[1..k -> UrlParams] : k \in 1..MaxParams} }

\* String.prototype.includes.
includes(s, t) == \E i \in 0..(Len(s) - Len(t)) : SubSeq(s, i + 1, i + Len(t)) = t

\* String.prototype.lastIndexOf for a one-character needle: zero-based, -1 when absent.
lastIndexOf(s, c) ==
    IF \E i \in 1..Len(s) : s[i] = c
    THEN (CHOOSE i \in 1..Len(s) : s[i] = c /\ \A j \in (i + 1)..Len(s) : s[j] # c) - 1
    ELSE -1

\* String.prototype.slice(from, to) for 0 <= from and 0 <= to.
slice(s, from, to) == SubSeq(s, from + 1, IF to > Len(s) THEN Len(s) ELSE to)

\* The Number 0, as getLimitFromUrl returns it.
NumberZero == <<"Number 0">>

\* if (x): the empty string and 0 are falsy, every other string is truthy.
Truthy(x) == x \notin {<<>>, NumberZero}

getLimitFromUrl(newUrl) ==
    IF includes(newUrl, <<"?">> \o LimitEq)
    THEN slice(newUrl, lastIndexOf(newUrl, "=") + 1, Len(newUrl))
    ELSE NumberZero

\* The URL the click handler of #update navigates to.
updateUrl(url, limit) ==
    IF Truthy(getLimitFromUrl(url))
    THEN slice(url, 0, lastIndexOf(url, "=") + 1) \o limit
    ELSE url \o <<"?">> \o LimitEq \o limit

\* Click on #update: the page navigates to the new URL.
updateClick ==
    /\ Len(updateUrl(href, spinner)) <= MaxUrlLen
    /\ href' = updateUrl(href, spinner)
    /\ clicked' = [done |-> TRUE, from |-> href, limit |-> spinner]
    /\ UNCHANGED spinner

\* The user changes the spinner.
spin ==
    /\ \E v \in SpinnerValues : v # spinner /\ spinner' = v
    /\ clicked' = NoClick
    /\ UNCHANGED href

InitUrl ==
    /\ PageLoaded(Ran("load", TRUE, <<>>))
    /\ IdleCents /\ IdleLength /\ IdleRoll
    /\ href \in Urls
    /\ spinner \in SpinnerValues
    /\ clicked = NoClick

NextUrl ==
    \/ (updateClick /\ UNCHANGED <<dialogVars, centsVars, lengthVars, rollVars>>)
    \/ (spin /\ UNCHANGED <<dialogVars, centsVars, lengthVars, rollVars>>)

SpecUrl == InitUrl /\ [][NextUrl]_vars

----------------------------------------------------------------------------
(* Properties *)

Chars(s) == {s[i] : i \in 1..Len(s)}

IsDigitString(s) == Chars(s) \subseteq Digits

\* JavaScript's Number(s) is NaN, for a string s without white space, exponent,
\* radix prefix or "Infinity": s is not empty and is not an optionally signed
\* decimal literal (digits with at most one point and at least one digit).
CastsToNaN(s) ==
    LET body == IF Len(s) > 0 /\ s[1] \in {"-", "+"} THEN SubSeq(s, 2, Len(s)) ELSE s
        points == {i \in 1..Len(body) : body[i] = "."}
    IN  /\ Len(s) > 0
        /\ ~ (/\ Chars(body) \subseteq Digits \cup {"."}
              /\ Cardinality(points) <= 1
              /\ Chars(body) \cap Digits # {})

SavePassed == last.op = "saveNewPlan" /\ last.valid
SaveFailed == last.op = "saveNewPlan" /\ ~last.valid

\* C1: after a Save that passed validation, both prices of the create payload
\* are empty or written with digits only.
C1_PayloadPricesAreDigits ==
    SavePassed =>
        \A i \in 1..Len(last.sent) :
            /\ IsDigitString(last.sent[i].data.listPriceMonthlyCredit)
            /\ IsDigitString(last.sent[i].data.discountedPriceMonthlyCredit)

\* The input D.F of a dollarsToCents call: one decimal point, D before it, F after.
HasOnePoint(s) == Cardinality({i \in 1..Len(s) : s[i] = "."}) = 1
PointAt(s) == CHOOSE i \in 1..Len(s) : s[i] = "."
IntPart(s) == SubSeq(s, 1, PointAt(s) - 1)
FracPart(s) == SubSeq(s, PointAt(s) + 1, Len(s))

\* C2: for an input D.F, dollarsToCents returns D followed by exactly two
\* characters and no decimal point: the first two characters of F when F is
\* longer than two, F and "0" when F has one character, "00" when F is empty,
\* F itself when F has two.
C2_CentsOfDecimal ==
    (centsOut # Undefined /\ HasOnePoint(cost)) =>
        LET D == IntPart(cost)
            F == FracPart(cost)
        IN  /\ "." \notin Chars(centsOut)
            /\ Len(centsOut) = Len(D) + 2
            /\ SubSeq(centsOut, 1, Len(D)) = D
            /\ Len(F) > 2 => SubSeq(centsOut, Len(D) + 1, Len(D) + 2) = <<F[1], F[2]>>
            /\ Len(F) = 2 => SubSeq(centsOut, Len(D) + 1, Len(D) + 2) = F
            /\ Len(F) = 1 => SubSeq(centsOut, Len(D) + 1, Len(D) + 2) = <<F[1], "0">>
            /\ Len(F) = 0 => SubSeq(centsOut, Len(D) + 1, Len(D) + 2) = <<"0", "0">>

\* A call on 1.999 returned 199: nothing was rounded up.
C2_Witness == cost = <<"1", ".", "9", "9", "9">> /\ centsOut = <<"1", "9", "9">>

\* C3: dollarsToCents returns the empty string for the empty input, and the
\* input followed by "00" for a non-empty input without a decimal point.
C3_CentsOfWhole ==
    centsOut # Undefined =>
        /\ cost = <<>> => centsOut = <<>>
        /\ (cost # <<>> /\ "." \notin Chars(cost)) =>
               (/\ Len(centsOut) = Len(cost) + 2
                /\ SubSeq(centsOut, 1, Len(cost)) = cost
                /\ SubSeq(centsOut, Len(cost) + 1, Len(cost) + 2) = <<"0", "0">>)

\* A call on 19 returned 1900.
C3_Witness == cost = <<"1", "9">> /\ centsOut = <<"1", "9", "0", "0">>

\* C4: a Save whose coupon code has a valid length and whose list price text
\* casts to NaN is reported invalid: the list price field is flagged, the pass
\* fails and no request is sent.
C4_NaNPriceIsInvalid ==
    (/\ last.op = "saveNewPlan"
     /\ Len(fields[couponCode]) \in 3..128
     /\ CastsToNaN(fields[listPriceMonthlyCredit])) =>
        /\ ~last.valid
        /\ listPriceMonthlyCredit \in errFlags
        /\ last.sent = <<>>

\* C5: checkLength returns valid exactly when min <= length(value) <= max; when
\* invalid the field carries the error flag, when valid its flag is as before.
C5_CheckLength ==
    lenRet.called =>
        /\ lenRet.ret <=> (lenArgs.min <= Len(lenArgs.val) /\ Len(lenArgs.val) <= lenArgs.max)
        /\ ~lenRet.ret => "o" \in lenRet.err
        /\ lenRet.ret => lenRet.err = lenArgs.err

\* A call with length = max on a field not flagged before returned valid and left
\* the field not flagged.
C5_Witness ==
    /\ lenRet.called /\ lenRet.ret /\ lenRet.err = {}
    /\ Len(lenArgs.val) = lenArgs.max /\ lenArgs.min < lenArgs.max

\* C6: a Save pass that fails validation sends no request and leaves the dialog
\* open; a Save with a coupon code length outside [3,128] sends none and leaves
\* the coupon field flagged.
C6_FailedSaveSendsNothing ==
    [][(last'.op = "saveNewPlan" /\ (~last'.valid \/ Len(fields[couponCode]) \notin 3..128)) =>
          /\ pending' = pending
          /\ last'.sent = <<>>
          /\ isOpen'
          /\ Len(fields[couponCode]) \notin 3..128 => couponCode \in errFlags']_vars

\* A Save with a coupon code of length 2 failed while a request was in flight.
C6_Witness ==
    /\ SaveFailed /\ Len(fields[couponCode]) = 2 /\ couponCode \in errFlags
    /\ isOpen /\ Len(pending) = 1

\* C7: a Save whose checks all pass sends exactly one create request, with the
\* prices dollarsToCents of the two price fields and with an empty expiration
\* when the expiration date field is empty.
C7_ValidSaveSendsOne ==
    [][(last'.op = "saveNewPlan" /\ last'.valid) =>
          /\ Len(last'.sent) = 1
          /\ pending' = Append(pending, "createNewPlan")
          /\ last'.sent[1].api = "createNewPlan"
          /\ last'.sent[1].data.listPriceMonthlyCredit
                 = dollarsToCents(fields[listPriceMonthlyCredit])
          /\ last'.sent[1].data.discountedPriceMonthlyCredit
                 = dollarsToCents(fields[discountedPriceMonthlyCredit])
          /\ fields[couponExpiresDate] = <<>> =>
                 last'.sent[1].data.couponExpiresDate = <<>>]_vars

\* A second create was sent, with no expiration date, price 9.5 as 950 and no
\* discounted price, while the first create was still in flight.
C7_Witness ==
    /\ SavePassed /\ fields[couponExpiresDate] = <<>>
    /\ pending = <<"createNewPlan", "createNewPlan">>
    /\ last.sent[1].data.listPriceMonthlyCredit = <<"9", "5", "0">>
    /\ last.sent[1].data.discountedPriceMonthlyCredit = <<>>
    /\ last.sent[1].data.couponExpiresDate = <<>>

\* The visible plan rows and the (coupon code, plan type) pair of a row.
PlanRows == 2..Len(rows)
Pair(i) == <<rows[i].coupon, rows[i].type>>

\* C8: while the checkbox is checked, as many plan rows are shown as there are
\* distinct (coupon code, plan type) pairs, and a row is shown exactly when no
\* earlier row carries its pair.
C8_RollupKeepsFirst ==
    checked =>
        /\ Cardinality(Shown(display) \cap PlanRows) = Cardinality({Pair(i) : i \in PlanRows})
        /\ \A i \in PlanRows :
              display[i] # "none" <=> ~(\E j \in PlanRows : j < i /\ Pair(j) = Pair(i))

\* Rows (A,M),(A,Y),(A,M),(A~M,M) rolled up: the third row is hidden, the others shown.
C8_Witness ==
    /\ checked
    /\ Len(rows) = 5
    /\ Pair(2) = <<(<<"A">>), (<<"M">>)>> /\ Pair(3) = <<(<<"A">>), (<<"Y">>)>>
    /\ Pair(4) = Pair(2) /\ Pair(5) = <<(<<"A", "~", "M">>), (<<"M">>)>>
    /\ Shown(display) = {1, 2, 3, 5}

\* C9: the rows shown depend only on the checkbox: all of them when it is
\* unchecked, and the rows the first collapse left shown when it is checked.
C9_ToggleReversible ==
    /\ ~checked => Shown(display) = 1..Len(rows)
    /\ checked => Shown(display) = firstShown

\* The rows are collapsed for the second time, and a row is hidden.
C9_Witness == checked /\ recollapsed /\ Shown(display) # 1..Len(rows)

\* C10: whenever the plan dialog goes from open to closed, all fields have their
\* default values and no field carries the error flag.
C10_CloseResets ==
    [][(isOpen /\ ~isOpen') => (fields' = FormDefault /\ errFlags' = {})]_vars

\* The dialog was closed by Cancel after a validation pass had failed.
C10_Witness ==
    /\ ~isOpen /\ last.op = "Cancel" /\ tipsText # InitialTips
    /\ fields = FormDefault /\ errFlags = {}

\* The sequence p without its i-th element.
Without(p, i) == SubSeq(p, 1, i - 1) \o SubSeq(p, i + 1, Len(p))

\* C11: a failing request leaves the dialog, the fields and the page as they
\* are and is not sent again; a step sends a request (one) exactly when it is a
\* Save that passed or a confirmed Delete, so the requests sent number the
\* valid Saves plus the confirmed Deletes.
C11_FailureChangesNothing ==
    [][/\ last'.op = "requestFail" =>
             /\ UNCHANGED <<fields, errFlags, tipsText, expires, isOpen, confirmOpen, buttons,
                            openedAs, activePlan>>
             /\ \E i \in 1..Len(pending) : pending' = Without(pending, i)
       /\ last'.op \notin {"requestFail", "requestDone"} =>
             pending' = pending \o Apis(last'.sent)
       /\ Len(last'.sent) =
             IF (last'.op = "saveNewPlan" /\ last'.valid) \/ last'.op = "confirmDelete"
             THEN 1 ELSE 0]_vars

\* The only request in flight has failed: the dialog is open with the coupon code
\* the user typed.
C11_Witness ==
    /\ last.op = "requestFail" /\ pending = <<>>
    /\ isOpen /\ fields[couponCode] = <<"A", "B", "C">>

\* C12: the confirmation dialog opens only by the Delete button of the plan
\* dialog; a delete request is sent only by confirming there and carries the id
\* field's value and nothing else; cancelling the confirmation sends nothing and
\* leaves the plan dialog open with its fields as they were.
C12_DeleteOnlyAfterConfirm ==
    [][/\ (~confirmOpen /\ confirmOpen') => (last'.op = "deletePlan" /\ isOpen /\ isOpen')
       /\ (\E i \in 1..Len(last'.sent) : last'.sent[i].api = "deletePlan") =>
             (last'.op = "confirmDelete" /\ confirmOpen)
       /\ last'.op = "confirmDelete" =>
             /\ Len(last'.sent) = 1
             /\ last'.sent[1].api = "deletePlan"
             /\ DOMAIN last'.sent[1].data = {"id"}
             /\ last'.sent[1].data.id = fields[idfld]
             /\ pending' = Append(pending, "deletePlan")
       /\ Len(pending') > Len(pending) /\ pending'[Len(pending')] = "deletePlan" =>
             last'.op = "confirmDelete"
       /\ last'.op = "confirmCancel" =>
             /\ pending' = pending /\ last'.sent = <<>>
             /\ isOpen /\ isOpen' /\ ~confirmOpen'
             /\ fields' = fields]_vars

\* The deletion of plan 7 was confirmed and its request is in flight.
C12_Witness ==
    /\ last.op = "confirmDelete" /\ pending = <<"deletePlan">>
    /\ last.sent[1].data = [id |-> <<"7">>]

\* C13: a Save that passes while a create request is in flight is not held
\* back, and no step other than the completion of a request takes a request out
\* of flight.
C13_SecondSaveNotGuarded ==
    /\ [](\A i \in 1..(MaxPending - 1) :
             (isOpen /\ ~confirmOpen /\ pending = [j \in 1..i |-> "createNewPlan"]
                  /\ savePass(fields, tipsText, expires).valid) => ENABLED saveNewPlan)
    /\ [][last'.op \notin {"requestFail", "requestDone"} =>
             (Len(pending') >= Len(pending) /\ SubSeq(pending', 1, Len(pending)) = pending)]_vars

\* Two create requests are in flight at the same time.
C13_Witness == SavePassed /\ pending = <<"createNewPlan", "createNewPlan">>

\* C19: the Delete button is shown exactly when the dialog was opened last for
\* edit, whatever openings and closings came before; the confirmation dialog and
\* a delete request only occur in a dialog opened for edit.
C19_DeleteOnlyInEdit ==
    /\ openedAs # "none" => (buttons.delete <=> openedAs = "edit")
    /\ confirmOpen => (isOpen /\ openedAs = "edit")
    /\ last.op = "confirmDelete" => openedAs = "edit"
    /\ (isOpen /\ openedAs = "create") =>
           (~confirmOpen /\ ~ENABLED deletePlan /\ ~ENABLED confirmDelete)

\* The dialog is open for create after it had been opened for edit.
C19_Witness ==
    /\ isOpen /\ openedAs = "create" /\ ~buttons.delete
    /\ activePlan # NoPlan

\* The four checks of a Save pass in their order, each run on its own on the
\* field values flds: the field it checks and what it returns.
NoDisplay == [err |-> {}, tips |-> InitialTips]

Checks(flds) ==
    << checkLength(NoDisplay, couponCode, flds[couponCode], "Coupon Code", 3, 128),
       checkNumber(NoDisplay, listPriceMonthlyCredit, flds[listPriceMonthlyCredit],
                   "List Price Monthly"),
       checkNumber(NoDisplay, discountedPriceMonthlyCredit,
                   flds[discountedPriceMonthlyCredit], "Discounted Price Monthly"),
       IF Len(flds[couponExpiresDate]) > 0
       THEN checkRegexp(NoDisplay, couponExpiresDate, flds[couponExpiresDate], DateRegexp,
                        "Expiration date must use this format: 12/25/2022")
       ELSE [ret |-> TRUE, st |-> NoDisplay] >>

Failing(flds) == {i \in 1..4 : ~Checks(flds)[i].ret}
FirstFailing(flds) == CHOOSE i \in Failing(flds) : \A j \in Failing(flds) : i <= j
LastFailing(flds) == CHOOSE i \in Failing(flds) : \A j \in Failing(flds) : i >= j

\* Exactly two digits, a slash, two digits, a slash and four digits.
ExactDate(s) == Len(s) = 10 /\ DateBlock(s, 0)

\* C14: at a Save with a coupon code of valid length and a non-empty expiration
\* date, a date that is not exactly dd/dd/dddd is flagged, fails the pass and no
\* request is sent; a date of exactly that shape is not flagged.
C14_MalformedDateFails ==
    (/\ last.op = "saveNewPlan"
     /\ Len(fields[couponCode]) \in 3..128
     /\ fields[couponExpiresDate] # <<>>) =>
        IF ExactDate(fields[couponExpiresDate])
        THEN couponExpiresDate \notin errFlags
        ELSE couponExpiresDate \in errFlags /\ ~last.valid /\ last.sent = <<>>

\* C15 as stated: after a Save pass in which more than one check fails, the tip
\* is the message of the last failing check.
C15_LastFailingMessage ==
    (last.op = "saveNewPlan" /\ Cardinality(Failing(fields)) > 1) =>
        tipsText = Checks(fields)[LastFailing(fields)].st.tips

\* C15 as amended: after a Save pass in which more than one check fails, the
\* tip is the message of the first failing check.
C15_FirstFailingMessage ==
    (last.op = "saveNewPlan" /\ Cardinality(Failing(fields)) > 1) =>
        tipsText = Checks(fields)[FirstFailing(fields)].st.tips

\* A Save with a coupon code of two characters and a malformed date left the
\* tip of the length check.
C15_Witness ==
    /\ SaveFailed /\ Failing(fields) = {1, 4}
    /\ tipsText = LengthTip("Coupon Code", 3, 128)

\* C16: after a Save pass at most one field is flagged: the field of the first
\* failing check, and none when every check succeeds, whatever was flagged before.
C16_OnlyFirstFailingFlagged ==
    last.op = "saveNewPlan" =>
        /\ Cardinality(errFlags) <= 1
        /\ Failing(fields) = {} => (errFlags = {} /\ last.valid)
        /\ Failing(fields) # {} =>
               (errFlags = Checks(fields)[FirstFailing(fields)].st.err /\ ~last.valid)

\* A Save failed on the date alone: only the date field is flagged.
C16_Witness ==
    /\ SaveFailed /\ Failing(fields) = {4}
    /\ errFlags = {couponExpiresDate}

\* The number a string of digits writes.
RECURSIVE StrToNat(_)
StrToNat(s) ==
    IF s = <<>> THEN 0
    ELSE 10 * StrToNat(SubSeq(s, 1, Len(s) - 1)) + DigitVal(s[Len(s)])

\* C18: a Save in a dialog opened for edit whose fields are still the ones the
\* snapshot filled in sends the snapshot's two prices.
C18_UnchangedEditKeepsPrices ==
    (SavePassed /\ openedAs = "edit" /\ fields = setInitialValues(FormDefault, activePlan)) =>
        /\ IsDigitString(last.sent[1].data.listPriceMonthlyCredit)
        /\ IsDigitString(last.sent[1].data.discountedPriceMonthlyCredit)
        /\ StrToNat(last.sent[1].data.listPriceMonthlyCredit)
               = activePlan.list_price_monthly_credit
        /\ StrToNat(last.sent[1].data.discountedPriceMonthlyCredit)
               = activePlan.discounted_price_monthly_credit

\* The path of a URL (what precedes the first "?") and its query parameters.
PathOf(url) == IF indexOf(url, "?") < 0 THEN url ELSE SubSeq(url, 1, indexOf(url, "?"))
ParamsOf(url) ==
    IF indexOf(url, "?") < 0 THEN <<>>
    ELSE split(SubSeq(url, indexOf(url, "?") + 2, Len(url)), "&")
IsLimit(param) == Len(param) >= Len(LimitEq) /\ SubSeq(param, 1, Len(LimitEq)) = LimitEq
LimitParams(url) == SelectSeq(ParamsOf(url), IsLimit)
OtherParams(url) == SelectSeq(ParamsOf(url), LAMBDA param : ~IsLimit(param))

\* C17: the URL an Update click navigates to has exactly one limit parameter,
\* with the spinner's value, and otherwise the path and the parameters of the
\* URL the click was made on.
C17_UpdateSetsOneLimit ==
    clicked.done =>
        /\ LimitParams(href) = <<LimitEq \o clicked.limit>>
        /\ PathOf(href) = PathOf(clicked.from)
        /\ OtherParams(href) = OtherParams(clicked.from)

====
